---------------------------- MODULE Spec2Model ----------------------------
(***************************************************************************)
(* Model of the Bitcoin block decoder of cubo-plus (src/main.rs) and of    *)
(* its hex codec (bitcoin-data-structures/src/utils.rs).                   *)
(*                                                                         *)
(* A byte is an integer 0..255 and a buffer (&[u8]) is a sequence of       *)
(* bytes.  A char is its code point and a &str is a sequence of chars.     *)
(* A fixed-width unsigned integer (u16, u32, u64, and the bit pattern of   *)
(* an i32) is a numeral: the sequence of its base-256 digits, most         *)
(* significant digit first, one digit per byte of the type's width.  The   *)
(* numeral keeps the full width of the type, which a 32-bit integer of     *)
(* the model checker cannot.                                               *)
(*                                                                         *)
(* The outcome of a call is a record: kind "Ok" (a value and, for the      *)
(* decoders, the remainder of the buffer), kind "Err" (the function        *)
(* returned Err(e) to its caller) or kind "Panic" (the function panicked:  *)
(* the thread unwinds and the program aborts).  The ? operator of the      *)
(* source is the test `x.kind # "Ok"` that hands x on unchanged.           *)
(***************************************************************************)
EXTENDS Integers, Sequences, FiniteSets, TLC

VARIABLES BLOCK, bytes, call, pc, script_bytes, opcodes

vars == <<BLOCK, bytes, call, pc, script_bytes, opcodes>>

\* call is the function that was applied and the outcome it came to
called == call[1]

result == call[2]

-----------------------------------------------------------------------------
(* Outcomes *)

Ok(v, r) == [kind |-> "Ok", val |-> v, rest |-> r, msg |-> ""]

Err(m) == [kind |-> "Err", val |-> <<>>, rest |-> <<>>, msg |-> m]

Panic(m) == [kind |-> "Panic", val |-> <<>>, rest |-> <<>>, msg |-> m]

None == [kind |-> "None", val |-> <<>>, rest |-> <<>>, msg |-> ""]

-----------------------------------------------------------------------------
(* Slices and integers of the standard library *)

\* bytes[i], zero-based
Index(b, i) ==
    IF i >= Len(b) THEN Panic("index out of bounds") ELSE Ok(b[i + 1], <<>>)

\* bytes[lo..hi], zero-based, hi excluded
Range(b, lo, hi) ==
    IF hi > Len(b) THEN Panic("range end index out of range")
    ELSE Ok(SubSeq(b, lo + 1, hi), <<>>)

\* bytes[lo..], zero-based, for lo <= len (every use follows a read of the
\* bytes before lo)
RangeFrom(b, lo) == SubSeq(b, lo + 1, Len(b))

\* <[u8; n]>::try_from(slice)
try_into(s, n) ==
    IF Len(s) = n THEN Ok(s, <<>>) ELSE Err("TryFromSliceError")

Reverse(s) == [i \in 1..Len(s) |-> s[Len(s) + 1 - i]]

\* uN::from_le_bytes: the first byte of the array is the least significant
\* digit, so it is the last digit of the numeral.
from_le_bytes(a) == Reverse(a)

\* `as u64` of an unsigned integer: zero extension to 8 digits
as_u64(n) == [i \in 1..(8 - Len(n)) |-> 0] \o n

\* `as usize` of a u64 (64-bit target: no truncation).  A usize is only ever
\* compared to the length of a buffer or counted up to in a loop that stops
\* at the first failure, so every value of 2^24 or more is represented by
\* 2^24, which exceeds the length of every buffer of the model.
as_usize(n) ==
    IF \E i \in 1..5 : n[i] # 0 THEN 256 * 256 * 256
    ELSE (n[6] * 256 + n[7]) * 256 + n[8]

-----------------------------------------------------------------------------
(* Primitive field decoders *)

VarInt_parse_keeps_tag(b) ==
    LET tag == Index(b, 0) IN IF tag.kind # "Ok" THEN tag ELSE
    IF tag.val <= 252 THEN Ok(as_u64(<<tag.val>>), b)
    ELSE IF tag.val = 253 THEN
        LET s == Range(b, 1, 3) IN IF s.kind # "Ok" THEN s ELSE
        LET a == try_into(s.val, 2) IN IF a.kind # "Ok" THEN a ELSE
        Ok(as_u64(from_le_bytes(a.val)), RangeFrom(b, 3))
    ELSE IF tag.val = 254 THEN
        LET s == Range(b, 1, 5) IN IF s.kind # "Ok" THEN s ELSE
        LET a == try_into(s.val, 4) IN IF a.kind # "Ok" THEN a ELSE
        Ok(as_u64(from_le_bytes(a.val)), RangeFrom(b, 5))
    ELSE
        LET s == Range(b, 1, 9) IN IF s.kind # "Ok" THEN s ELSE
        LET a == try_into(s.val, 8) IN IF a.kind # "Ok" THEN a ELSE
        Ok(from_le_bytes(a.val), RangeFrom(b, 9))

VarInt_parse_big_endian(b) ==
    LET tag == Index(b, 0) IN IF tag.kind # "Ok" THEN tag ELSE
    IF tag.val <= 252 THEN Ok(as_u64(<<tag.val>>), RangeFrom(b, 1))
    ELSE IF tag.val = 253 THEN
        LET s == Range(b, 1, 3) IN IF s.kind # "Ok" THEN s ELSE
        LET a == try_into(s.val, 2) IN IF a.kind # "Ok" THEN a ELSE
        Ok(as_u64(a.val), RangeFrom(b, 3))
    ELSE IF tag.val = 254 THEN
        LET s == Range(b, 1, 5) IN IF s.kind # "Ok" THEN s ELSE
        LET a == try_into(s.val, 4) IN IF a.kind # "Ok" THEN a ELSE
        Ok(as_u64(a.val), RangeFrom(b, 5))
    ELSE
        LET s == Range(b, 1, 9) IN IF s.kind # "Ok" THEN s ELSE
        LET a == try_into(s.val, 8) IN IF a.kind # "Ok" THEN a ELSE
        Ok(a.val, RangeFrom(b, 9))

VarInt_parse(b) ==
    LET tag == Index(b, 0) IN IF tag.kind # "Ok" THEN tag ELSE
    IF tag.val <= 252 THEN Ok(as_u64(<<tag.val>>), RangeFrom(b, 1))
    ELSE IF tag.val = 253 THEN
        LET s == Range(b, 1, 3) IN IF s.kind # "Ok" THEN s ELSE
        LET a == try_into(s.val, 2) IN IF a.kind # "Ok" THEN a ELSE
        Ok(as_u64(from_le_bytes(a.val)), RangeFrom(b, 3))
    ELSE IF tag.val = 254 THEN
        LET s == Range(b, 1, 5) IN IF s.kind # "Ok" THEN s ELSE
        LET a == try_into(s.val, 4) IN IF a.kind # "Ok" THEN a ELSE
        Ok(as_u64(from_le_bytes(a.val)), RangeFrom(b, 5))
    ELSE
        LET s == Range(b, 1, 9) IN IF s.kind # "Ok" THEN s ELSE
        LET a == try_into(s.val, 8) IN IF a.kind # "Ok" THEN a ELSE
        Ok(from_le_bytes(a.val), RangeFrom(b, 9))

i32_parse(b) ==
    LET s == Range(b, 0, 4) IN IF s.kind # "Ok" THEN s ELSE
    LET a == try_into(s.val, 4) IN IF a.kind # "Ok" THEN a ELSE
    Ok(from_le_bytes(a.val), RangeFrom(b, 4))

u32_parse(b) ==
    LET s == Range(b, 0, 4) IN IF s.kind # "Ok" THEN s ELSE
    LET a == try_into(s.val, 4) IN IF a.kind # "Ok" THEN a ELSE
    Ok(from_le_bytes(a.val), RangeFrom(b, 4))

u8_parse(b) ==
    LET v == Index(b, 0) IN IF v.kind # "Ok" THEN v ELSE
    Ok(v.val, RangeFrom(b, 1))

u64_parse(b) ==
    LET s == Range(b, 0, 8) IN IF s.kind # "Ok" THEN s ELSE
    LET a == try_into(s.val, 8) IN IF a.kind # "Ok" THEN a ELSE
    Ok(from_le_bytes(a.val), RangeFrom(b, 8))

\* impl Parse for [u8; 32]
Array32_parse(b) ==
    LET s == Range(b, 0, 32) IN IF s.kind # "Ok" THEN s ELSE
    LET a == try_into(s.val, 32) IN IF a.kind # "Ok" THEN a ELSE
    Ok(a.val, RangeFrom(b, 32))

-----------------------------------------------------------------------------
(* Structured record decoders.  A decoder that reads several fields is     *)
(* written as a chain of operators, one per `?` of the source: each takes  *)
(* the outcome of the call before it, hands a failure on unchanged and     *)
(* otherwise makes the next call on the remainder.                         *)

\* <T as Parse>::parse(bytes), for every type T that implements Parse
RECURSIVE Parse(_, _)

\* let (f1, bytes) = Parse::parse(bytes)?; let (f2, bytes) = ...: the fields
\* of a struct in the order of the source, each field decoded at its own type
\* from the remainder of the field before it.
RECURSIVE parse_fields(_, _, _)
next_field(field, types, vals) ==
    IF field.kind # "Ok" THEN field
    ELSE parse_fields(Tail(types), field.rest, Append(vals, field.val))

parse_fields(types, b, vals) ==
    IF types = <<>> THEN Ok(vals, b)
    ELSE next_field(Parse(Head(types), b), types, vals)

BlockHeader_new(f) ==
    IF f.kind # "Ok" THEN f ELSE
    Ok([version |-> f.val[1], prev_block |-> f.val[2],
        merkle_root |-> f.val[3], timestamp |-> f.val[4],
        bits |-> f.val[5], nonce |-> f.val[6]], f.rest)

BlockHeader_parse(b) ==
    BlockHeader_new(parse_fields(
        <<"i32", "[u8; 32]", "[u8; 32]", "u32", "u32", "u32">>, b, <<>>))

Block_new(f) ==
    IF f.kind # "Ok" THEN f ELSE
    Ok([header |-> f.val[1], transactions |-> f.val[2]], f.rest)

Block_parse(b) ==
    Block_new(parse_fields(<<"BlockHeader", "Vec<Transaction>">>, b, <<>>))

\* self.txid == [0; 32] && self.vout == 0xFFFFFFFF
is_coinbase(outpoint) ==
    /\ outpoint.txid = [i \in 1..32 |-> 0]
    /\ outpoint.vout = <<255, 255, 255, 255>>

OutPoint_new(f) ==
    IF f.kind # "Ok" THEN f ELSE
    Ok([txid |-> f.val[1], vout |-> f.val[2]], f.rest)

OutPoint_parse(b) ==
    OutPoint_new(parse_fields(<<"[u8; 32]", "u32">>, b, <<>>))

\* for _ in 0..n { let (item, remainder) = T::parse(bytes)?;
\*                 data.push(item); bytes = remainder; }
RECURSIVE Vec_for(_, _, _, _)
Vec_push_keeps_partial(T, n, data, item) ==
    IF item.kind # "Ok" THEN Ok(data, <<>>)
    ELSE Vec_for(T, n - 1, item.rest, Append(data, item.val))

Vec_push(T, n, data, item) ==
    IF item.kind # "Ok" THEN item
    ELSE Vec_for(T, n - 1, item.rest, Append(data, item.val))

Vec_for(T, n, b, data) ==
    IF n = 0 THEN Ok(data, b) ELSE Vec_push(T, n, data, Parse(T, b))

Vec_loop(T, len) ==
    IF len.kind # "Ok" THEN len
    ELSE Vec_for(T, as_usize(len.val), len.rest, <<>>)

\* impl<T: Parse> Parse for Vec<T>
Vec_parse(T, b) == Vec_loop(T, VarInt_parse(b))

\* The variants of enum OpCode
Push(data) == [op |-> "Push", data |-> data]

Plain(name) == [op |-> name, data |-> <<>>]

OpCode_parse_pushdata1_off_by_one(b) ==
    LET first == Index(b, 0) IN IF first.kind # "Ok" THEN first ELSE
    LET v == first.val IN
    IF v >= 1 /\ v <= 75 THEN
        LET data == Range(b, 1, v + 1) IN IF data.kind # "Ok" THEN data ELSE
        Ok(Push(data.val), RangeFrom(b, v + 1))
    ELSE IF v = 76 THEN
        LET len == Index(b, 1) IN IF len.kind # "Ok" THEN len ELSE
        LET data == Range(b, 2, len.val + 1) IN
        IF data.kind # "Ok" THEN data ELSE
        Ok(Push(data.val), RangeFrom(b, len.val + 1))
    ELSE IF v = 106 THEN Ok(Plain("Return"), RangeFrom(b, 1))
    ELSE IF v = 118 THEN Ok(Plain("Dup"), RangeFrom(b, 1))
    ELSE IF v = 135 THEN Ok(Plain("Equal"), RangeFrom(b, 1))
    ELSE IF v = 136 THEN Ok(Plain("EqualVerify"), RangeFrom(b, 1))
    ELSE IF v = 169 THEN Ok(Plain("Hash160"), RangeFrom(b, 1))
    ELSE IF v = 172 THEN Ok(Plain("CheckSig"), RangeFrom(b, 1))
    ELSE Panic("not yet implemented")

\* dbg!(bytes[0]) reads the first byte before the match does; what dbg!
\* prints to stderr is not part of the outcome.  The last arm is todo!().
OpCode_parse(b) ==
    LET first == Index(b, 0) IN IF first.kind # "Ok" THEN first ELSE
    LET v == first.val IN
    IF v >= 1 /\ v <= 75 THEN
        LET data == Range(b, 1, v + 1) IN IF data.kind # "Ok" THEN data ELSE
        Ok(Push(data.val), RangeFrom(b, v + 1))
    ELSE IF v = 76 THEN
        LET len == Index(b, 1) IN IF len.kind # "Ok" THEN len ELSE
        LET data == Range(b, 2, len.val + 2) IN
        IF data.kind # "Ok" THEN data ELSE
        Ok(Push(data.val), RangeFrom(b, len.val + 2))
    ELSE IF v = 106 THEN Ok(Plain("Return"), RangeFrom(b, 1))
    ELSE IF v = 118 THEN Ok(Plain("Dup"), RangeFrom(b, 1))
    ELSE IF v = 135 THEN Ok(Plain("Equal"), RangeFrom(b, 1))
    ELSE IF v = 136 THEN Ok(Plain("EqualVerify"), RangeFrom(b, 1))
    ELSE IF v = 169 THEN Ok(Plain("Hash160"), RangeFrom(b, 1))
    ELSE IF v = 172 THEN Ok(Plain("CheckSig"), RangeFrom(b, 1))
    ELSE Panic("not yet implemented")

\* while !script_bytes.is_empty() {
\*     let (opcode, bytes) = OpCode::parse(script_bytes)?;
\*     script_bytes = bytes; opcodes.push(opcode); }
RECURSIVE Script_while(_, _)
Script_push(ops, opcode) ==
    IF opcode.kind # "Ok" THEN opcode
    ELSE Script_while(opcode.rest, Append(ops, opcode.val))

Script_while(region, ops) ==
    IF region = <<>> THEN Ok(ops, <<>>)
    ELSE Script_push(ops, OpCode_parse(region))

\* Ok((Script(opcodes), &bytes[len.0 as usize..]))
Script_new(len, ops) ==
    IF ops.kind # "Ok" THEN ops
    ELSE Ok(ops.val, RangeFrom(len.rest, as_usize(len.val)))

Script_opcodes(len, region) ==
    IF region.kind # "Ok" THEN region
    ELSE Script_new(len, Script_while(region.val, <<>>))

\* let mut script_bytes = &bytes[..len.0 as usize];
Script_region(len) ==
    IF len.kind # "Ok" THEN len
    ELSE Script_opcodes(len, Range(len.rest, 0, as_usize(len.val)))

Script_parse(b) == Script_region(VarInt_parse(b))

TxIn_new(previous_output, script_sig, sequence) ==
    IF sequence.kind # "Ok" THEN sequence ELSE
    Ok([previous_output |-> previous_output, script_sig |-> script_sig,
        sequence |-> sequence.val], sequence.rest)

TxIn_sequence(previous_output, script_sig) ==
    IF script_sig.kind # "Ok" THEN script_sig
    ELSE TxIn_new(previous_output, script_sig.val, u32_parse(script_sig.rest))

\* let (_, bytes) = VarInt::parse(bytes)?; (Script(vec![]), bytes)
TxIn_coinbase_script(len) ==
    IF len.kind # "Ok" THEN len ELSE Ok(<<>>, len.rest)

TxIn_script_sig(previous_output) ==
    IF previous_output.kind # "Ok" THEN previous_output
    ELSE TxIn_sequence(previous_output.val,
            IF is_coinbase(previous_output.val)
            THEN TxIn_coinbase_script(VarInt_parse(previous_output.rest))
            ELSE Script_parse(previous_output.rest))

TxIn_parse(b) == TxIn_script_sig(OutPoint_parse(b))

TxOut_new(f) ==
    IF f.kind # "Ok" THEN f ELSE
    Ok([value |-> f.val[1], script_pubkey |-> f.val[2]], f.rest)

TxOut_parse(b) == TxOut_new(parse_fields(<<"u64", "Script">>, b, <<>>))

Transaction_new(f) ==
    IF f.kind # "Ok" THEN f ELSE
    Ok([version |-> f.val[1], inputs |-> f.val[2],
        outputs |-> f.val[3], locktime |-> f.val[4]], f.rest)

Transaction_parse(b) ==
    Transaction_new(parse_fields(
        <<"u32", "Vec<TxIn>", "Vec<TxOut>", "u32">>, b, <<>>))

Parse(T, b) ==
    CASE T = "VarInt" -> VarInt_parse(b)
      [] T = "i32" -> i32_parse(b)
      [] T = "u32" -> u32_parse(b)
      [] T = "u8" -> u8_parse(b)
      [] T = "u64" -> u64_parse(b)
      [] T = "[u8; 32]" -> Array32_parse(b)
      [] T = "BlockHeader" -> BlockHeader_parse(b)
      [] T = "Block" -> Block_parse(b)
      [] T = "OutPoint" -> OutPoint_parse(b)
      [] T = "Vec<TxIn>" -> Vec_parse("TxIn", b)
      [] T = "Vec<TxOut>" -> Vec_parse("TxOut", b)
      [] T = "Vec<Transaction>" -> Vec_parse("Transaction", b)
      [] T = "OpCode" -> OpCode_parse(b)
      [] T = "Script" -> Script_parse(b)
      [] T = "TxIn" -> TxIn_parse(b)
      [] T = "TxOut" -> TxOut_parse(b)
      [] T = "Transaction" -> Transaction_parse(b)

-----------------------------------------------------------------------------
(* Hex codec (utils.rs) *)

\* c.to_digit(16).ok_or("Invalid hex digit")? as u8
char_to_u8(c) ==
    IF c >= 48 /\ c <= 57 THEN Ok(c - 48, <<>>)
    ELSE IF c >= 97 /\ c <= 102 THEN Ok(c - 87, <<>>)
    ELSE IF c >= 65 /\ c <= 70 THEN Ok(c - 55, <<>>)
    ELSE Err("Invalid hex digit")

\* chunks_iter.map(..).collect::<Result<Vec<_>, _>>() over the chunks of two
\* chars, in order: the first Err ends the collection and is the outcome
\* (char_to_u8 builds one Err only), otherwise one byte per chunk.
\* hi << 4 | lo: the low four bits of hi << 4 are zero and lo < 16, so the
\* bitwise or is a sum.
from_hex_collect(chars) ==
    IF \E i \in 1..(2 * (Len(chars) \div 2)) : char_to_u8(chars[i]).kind # "Ok"
    THEN Err("Invalid hex digit")
    ELSE Ok([k \in 1..(Len(chars) \div 2) |->
                ((char_to_u8(chars[2 * k - 1]).val * 16) % 256)
                    + char_to_u8(chars[2 * k]).val], <<>>)

from_hex_drops_odd_char(s) == from_hex_collect(s)

from_hex(s) ==
    IF Len(s) % 2 # 0 THEN Err("Odd number of chars")
    ELSE from_hex_collect(s)

u8_to_char_upper(val) ==
    LET v == val % 16 IN IF v <= 9 THEN 48 + v ELSE 55 + v

\* match val & 0x0F
u8_to_char(val) ==
    LET v == val % 16 IN IF v <= 9 THEN 48 + v ELSE 87 + v

\* bytes.iter().map(|b| [u8_to_char(*b >> 4), u8_to_char(*b)]).flatten()
to_hex(b) ==
    [i \in 1..(2 * Len(b)) |->
        IF i % 2 = 1 THEN u8_to_char(b[(i + 1) \div 2] \div 16)
        ELSE u8_to_char(b[i \div 2])]

-----------------------------------------------------------------------------
(* The program *)

\* What main hands to dbg!, in order, before it stops
Dbg(expr, value) == [expr |-> expr, value |-> value]

Exit(kind, msg, reported) ==
    [kind |-> kind, val |-> reported, rest |-> <<>>, msg |-> msg]

\* dbg!(block.header); dbg!(block.transactions.len());
\* dbg!(&block.transactions[0]);
main_report(block, reported) ==
    IF block.transactions = <<>>
    THEN Exit("Panic", "index out of bounds",
              reported \o <<Dbg("block.header", block.header),
                            Dbg("block.transactions.len()", 0)>>)
    ELSE Exit("Ok", "",
              reported \o <<Dbg("block.header", block.header),
                            Dbg("block.transactions.len()",
                                Len(block.transactions)),
                            Dbg("&block.transactions[0]",
                                block.transactions[1])>>)

main_assert_skipped(parsed, reported) ==
    IF parsed.kind # "Ok" THEN Exit(parsed.kind, parsed.msg, reported)
    ELSE main_report(parsed.val, reported)

\* let (block, bytes) = Block::parse(&block_bytes)?;
\* assert!(bytes.len() == 0);
main_assert(parsed, reported) ==
    IF parsed.kind # "Ok" THEN Exit(parsed.kind, parsed.msg, reported)
    ELSE IF Len(parsed.rest) # 0
    THEN Exit("Panic", "assertion failed: bytes.len() == 0", reported)
    ELSE main_report(parsed.val, reported)

\* let block_bytes = from_hex(&BLOCK)?; dbg!(block_bytes.len());
main_parse(block_bytes) ==
    IF block_bytes.kind # "Ok" THEN block_bytes
    ELSE main_assert(Block_parse(block_bytes.val),
                     <<Dbg("block_bytes.len()", Len(block_bytes.val))>>)

main(text) == main_parse(from_hex(text))

-----------------------------------------------------------------------------
(* Inputs *)

\* Longest buffer drawn freely over ByteSample
MaxLen == 3

\* Longest text drawn freely over CharSample
MaxText == 4

\* Most elements, and most transactions, of a generated sequence
MaxItems == 2

Byte == 0..255

\* A VarInt of one byte, the 0xFD tag, PUSHDATA1, a plain opcode, an
\* unsupported opcode (0), direct pushes (1, 2)
ByteSample == {0, 1, 2, 76, 106, 253}

\* '0' '9' 'a' 'F' and 'g', which is no hex digit
CharSample == {48, 57, 97, 70, 103}

SeqsUpTo(S, n) == UNION {[1..k -> S] : k \in 0..n}

Zeros(n) == [i \in 1..n |-> 0]

\* n bytes, none of them zero and neighbours different
Fill(n) == [i \in 1..n |-> 21 + ((i - 1) % 200)]

Rep(e, m) == [i \in 1..(m * Len(e)) |-> e[((i - 1) % Len(e)) + 1]]

CoinbaseOutPoint == Zeros(32) \o <<255, 255, 255, 255>>

OutPoints ==
    { CoinbaseOutPoint,
      Zeros(32) \o <<255, 255, 255, 254>>,
      Zeros(31) \o <<1, 255, 255, 255, 255>>,
      Fill(36) }

\* Wire forms of a script: the VarInt and the start of what follows it
ScriptHeads ==
    { <<0>>, <<1, 106>>, <<2, 106, 118>>, <<2, 1, 7>>, <<1, 5>>,
      <<3, 76, 1, 9>>, <<2, 76, 5>>, <<1, 0>>, <<253, 1, 0, 172>>, <<5>>,
      <<3, 2, 135, 136, 169>>, <<4, 106, 118, 135, 136>> }

TxOutWire == <<1, 2, 3, 4, 5, 6, 7, 8, 1, 106>>

TxInWire == Fill(36) \o <<2, 118, 169, 9, 8, 7, 6>>

CoinbaseTxInWire == CoinbaseOutPoint \o <<0, 9, 8, 7, 6>>

EmptyTxWire == <<1, 0, 0, 0, 0, 0, 4, 3, 2, 1>>

CoinbaseTxWire ==
    <<1, 0, 0, 0, 1>> \o CoinbaseTxInWire \o <<1>> \o TxOutWire
        \o <<0, 0, 0, 0>>

SpendTxWire ==
    <<2, 0, 0, 0, 1>> \o TxInWire \o <<2>> \o TxOutWire \o TxOutWire
        \o <<5, 0, 0, 0>>

Tails == {<<>>, <<0>>, <<106>>}

Buffers ==
    \* short buffers over the sample
    SeqsUpTo(ByteSample, MaxLen)
    \* every first byte, alone or followed by one byte
    \cup { <<v>> \o Fill(k) : v \in Byte, k \in {0, 1} }
    \* a direct push with one byte too few, with exactly its bytes, with more
    \cup UNION { { <<v>> \o Fill(k) : k \in {v - 1, v, v + 1} } : v \in 1..75 }
    \cup UNION { { <<76, n>> \o Fill(k) : k \in {n, n + 1} } :
                    n \in {0, 1, 2, 75, 255} }
    \cup { <<76, n>> \o Fill(n - 1) : n \in {1, 2, 75, 255} }
    \* every length around the fixed widths 1, 4, 8, 32, 36 and 80
    \cup { Fill(k) : k \in 0..37 \cup {79, 80, 81} }
    \* the wide VarInts
    \cup { <<t>> \o Fill(k) : t \in {253, 254, 255}, k \in 0..9 }
    \cup { <<255, 255, 255, 255, 255, 255, 255, 255, 255>>,
           <<254, 1, 0, 0, 0, 7>>, <<255, 2, 0, 0, 0, 0, 0, 0, 0>>,
           <<254, 0, 0, 0, 1>>, <<255, 0, 0, 0, 1, 0, 0, 0, 0>> }
    \* scripts, transaction outputs and transaction inputs
    \cup { s \o Fill(k) : s \in ScriptHeads, k \in 0..2 }
    \cup { Fill(8) \o s \o Fill(k) : s \in ScriptHeads, k \in 0..2 }
    \cup { o \o s \o Fill(k) : o \in OutPoints, s \in ScriptHeads, k \in 0..6 }
    \* sequences: a count, some elements, a tail
    \cup { <<n>> \o Rep(e, m) \o t :
             n \in 0..(MaxItems + 1), m \in 0..(MaxItems + 1),
             e \in {TxOutWire, TxInWire, CoinbaseTxInWire, EmptyTxWire},
             t \in Tails }
    \* blocks
    \cup { Fill(80) \o <<n>> \o Rep(e, m) \o t :
             n \in 0..MaxItems, m \in 0..MaxItems,
             e \in {EmptyTxWire, CoinbaseTxWire, SpendTxWire}, t \in Tails }
    \cup { Fill(80) \o <<2>> \o CoinbaseTxWire \o SpendTxWire \o t :
             t \in Tails }

Texts == SeqsUpTo(CharSample, MaxText)

-----------------------------------------------------------------------------
(* The state machine: an input is drawn, then one function is applied to  *)
(* it.  BLOCK is the text of the hex dump main reads; bytes is the buffer *)
(* a decoder is handed.  The loop of Script::parse is also run one        *)
(* iteration per step, script_bytes and opcodes being its two locals.     *)

Init ==
    /\ \/ bytes \in Buffers /\ BLOCK = to_hex(bytes)
       \/ bytes = <<>> /\ BLOCK \in Texts
    /\ call = <<"none", None>>
    /\ pc = "ready"
    /\ script_bytes = <<>>
    /\ opcodes = <<>>

Return(name, r) ==
    /\ pc = "ready"
    /\ call' = <<name, r>>
    /\ pc' = "done"
    /\ UNCHANGED <<BLOCK, bytes, script_bytes, opcodes>>

Call_VarInt == Return("VarInt", VarInt_parse(bytes))

Call_i32 == Return("i32", i32_parse(bytes))

Call_u32 == Return("u32", u32_parse(bytes))

Call_u8 == Return("u8", u8_parse(bytes))

Call_u64 == Return("u64", u64_parse(bytes))

Call_Array32 == Return("[u8; 32]", Array32_parse(bytes))

Call_BlockHeader == Return("BlockHeader", BlockHeader_parse(bytes))

Call_Block == Return("Block", Block_parse(bytes))

Call_OutPoint == Return("OutPoint", OutPoint_parse(bytes))

Call_Vec_TxIn == Return("Vec<TxIn>", Vec_parse("TxIn", bytes))

Call_Vec_TxOut == Return("Vec<TxOut>", Vec_parse("TxOut", bytes))

Call_Vec_Transaction ==
    Return("Vec<Transaction>", Vec_parse("Transaction", bytes))

Call_OpCode == Return("OpCode", OpCode_parse(bytes))

Call_Script == Return("Script", Script_parse(bytes))

Call_TxIn == Return("TxIn", TxIn_parse(bytes))

Call_TxOut == Return("TxOut", TxOut_parse(bytes))

Call_Transaction == Return("Transaction", Transaction_parse(bytes))

Call_from_hex == Return("from_hex", from_hex(BLOCK))

Call_to_hex == Return("to_hex", Ok(to_hex(bytes), <<>>))

Call_main == Return("main", main(BLOCK))

\* Script::parse up to its loop: the VarInt and the slice of the region
Script_enter_with(len, region) ==
    /\ pc = "ready"
    /\ IF len.kind # "Ok"
       THEN /\ call' = <<"Script, step by step", len>>
            /\ pc' = "done" /\ script_bytes' = <<>>
       ELSE IF region.kind # "Ok"
       THEN /\ call' = <<"Script, step by step", region>>
            /\ pc' = "done" /\ script_bytes' = <<>>
       ELSE /\ call' = <<"Script, step by step", None>>
            /\ pc' = "while" /\ script_bytes' = region.val
    /\ opcodes' = <<>>
    /\ UNCHANGED <<BLOCK, bytes>>

Script_region_of(len) ==
    IF len.kind # "Ok" THEN len ELSE Range(len.rest, 0, as_usize(len.val))

Script_enter ==
    Script_enter_with(VarInt_parse(bytes),
                      Script_region_of(VarInt_parse(bytes)))

\* One iteration of while !script_bytes.is_empty()
Script_iterate_with(opcode) ==
    /\ pc = "while"
    /\ script_bytes # <<>>
    /\ IF opcode.kind # "Ok"
       THEN call' = <<called, opcode>> /\ pc' = "done"
            /\ UNCHANGED <<script_bytes, opcodes>>
       ELSE script_bytes' = opcode.rest
            /\ opcodes' = Append(opcodes, opcode.val)
            /\ UNCHANGED <<call, pc>>
    /\ UNCHANGED <<BLOCK, bytes>>

Script_iterate == Script_iterate_with(OpCode_parse(script_bytes))

\* The loop is left: Ok((Script(opcodes), &bytes[len.0 as usize..]))
Script_leave_with(len) ==
    /\ pc = "while"
    /\ script_bytes = <<>>
    /\ call' = <<called, Ok(opcodes, RangeFrom(len.rest, as_usize(len.val)))>>
    /\ pc' = "done"
    /\ UNCHANGED <<BLOCK, bytes, script_bytes, opcodes>>

Script_leave == Script_leave_with(VarInt_parse(bytes))

Next ==
    \/ Call_VarInt
    \/ Call_i32
    \/ Call_u32
    \/ Call_u8
    \/ Call_u64
    \/ Call_Array32
    \/ Call_BlockHeader
    \/ Call_Block
    \/ Call_OutPoint
    \/ Call_Vec_TxIn
    \/ Call_Vec_TxOut
    \/ Call_Vec_Transaction
    \/ Call_OpCode
    \/ Call_Script
    \/ Call_TxIn
    \/ Call_TxOut
    \/ Call_Transaction
    \/ Call_from_hex
    \/ Call_to_hex
    \/ Call_main
    \/ Script_enter
    \/ Script_iterate
    \/ Script_leave

Spec == Init /\ [][Next]_vars

\* The program is sequential: a call that has started runs on.  Every step
\* moves pc or takes bytes off script_bytes.
FairSpec == Spec /\ WF_<<pc, script_bytes>>(Next)

-----------------------------------------------------------------------------
(* The error kinds of the specification, as outcomes of the code *)

\* A failure value handed back to the caller: the only Err a decoder can
\* build is the TryFromSliceError of try_into()
TruncatedInput(r) == r.kind = "Err" /\ r.msg = "TryFromSliceError"

\* The fatal abort of todo!()
UnsupportedOpcode(r) == r.kind = "Panic" /\ r.msg = "not yet implemented"

\* The fatal abort of assert!(bytes.len() == 0)
TrailingBytes(r) ==
    r.kind = "Panic" /\ r.msg = "assertion failed: bytes.len() == 0"

Aborted(r) == r.kind = "Panic"

IsSuffix(r, b) ==
    Len(r) <= Len(b) /\ r = SubSeq(b, Len(b) - Len(r) + 1, Len(b))

\* b without its first n bytes
Drop(b, n) == SubSeq(b, n + 1, Len(b))

HexDigits == (48..57) \cup (97..102) \cup (65..70)

LowerHexDigits == (48..57) \cup (97..102)

Lower(s) == [i \in 1..Len(s) |-> IF s[i] \in 65..90 THEN s[i] + 32 ELSE s[i]]

-----------------------------------------------------------------------------
(* The step-by-step loop and Script_parse are two models of the same code  *)
(* and end in the same outcome.                                            *)
StepsAgree ==
    (called = "Script, step by step" /\ pc = "done")
        => result = Script_parse(bytes)

-----------------------------------------------------------------------------
\* C1: when the OutPoint of a TxIn is the coinbase marker, the decoder reads
\* a VarInt L, discards exactly L bytes, takes the sequence number from the 4
\* bytes that follow them and returns what follows those 4 bytes.
C1_CoinbaseSkipsScript ==
    called = "TxIn" =>
        LET outpoint == OutPoint_parse(bytes) IN
        (outpoint.kind = "Ok" /\ is_coinbase(outpoint.val)) =>
            LET len == VarInt_parse(outpoint.rest)
                L == as_usize(len.val)
            IN  (len.kind = "Ok" /\ Len(len.rest) >= L + 4) =>
                    /\ result.kind = "Ok"
                    /\ result.val.sequence =
                           <<len.rest[L + 4], len.rest[L + 3],
                             len.rest[L + 2], len.rest[L + 1]>>
                    /\ result.rest = Drop(len.rest, L + 4)

\* The coinbase input whose script length is not zero has been decoded.
C1_Reached ==
    /\ called = "TxIn"
    /\ result.kind = "Ok"
    /\ is_coinbase(result.val.previous_output)
    /\ bytes[37] = 2

-----------------------------------------------------------------------------
\* The bytes a primitive decoder needs of buffer b
Needs(name, b) ==
    CASE name = "u8" -> 1
      [] name \in {"i32", "u32"} -> 4
      [] name = "u64" -> 8
      [] name = "[u8; 32]" -> 32
      [] name = "VarInt" ->
            IF b = <<>> \/ b[1] <= 252 THEN 1
            ELSE IF b[1] = 253 THEN 3 ELSE IF b[1] = 254 THEN 5 ELSE 9

Primitives == {"u8", "i32", "u32", "u64", "[u8; 32]", "VarInt"}

\* C2: a primitive field decoder or the VarInt decoder that is given fewer
\* bytes than it needs returns a TruncatedInput failure value to its caller:
\* it neither aborts the program nor returns a value.
C2_ShortBufferReturnsTruncatedInput ==
    (called \in Primitives /\ Len(bytes) < Needs(called, bytes))
        => TruncatedInput(result)

\* A primitive decoder has been given a buffer that is too short.
C2_Reached ==
    /\ called \in Primitives
    /\ Len(bytes) < Needs(called, bytes)
    /\ Aborted(result)

-----------------------------------------------------------------------------
\* C3: the VarInt decoder follows the discriminant table whenever the buffer
\* is long enough: a first byte up to 0xFC is the value and 1 byte is
\* consumed, 0xFD is followed by a little-endian u16 (3 consumed), 0xFE by a
\* little-endian u32 (5), 0xFF by a little-endian u64 (9); an encoding that
\* is not minimal is decoded like any other.
C3_VarIntTable ==
    (called = "VarInt" /\ Len(bytes) >= Needs("VarInt", bytes)) =>
        LET b == bytes
            tag == b[1]
        IN  /\ result.kind = "Ok"
            /\ result.rest = Drop(b, Needs("VarInt", b))
            /\ result.val =
                 IF tag <= 252 THEN <<0, 0, 0, 0, 0, 0, 0, tag>>
                 ELSE IF tag = 253 THEN <<0, 0, 0, 0, 0, 0, b[3], b[2]>>
                 ELSE IF tag = 254 THEN <<0, 0, 0, 0, b[5], b[4], b[3], b[2]>>
                 ELSE <<b[9], b[8], b[7], b[6], b[5], b[4], b[3], b[2]>>

\* 0xFD 0x01 0x00, which is not minimal, has been decoded to 1.
C3_Reached ==
    /\ called = "VarInt"
    /\ Len(bytes) >= 3 /\ bytes[1] = 253 /\ bytes[2] = 1 /\ bytes[3] = 0
    /\ result.kind = "Ok"
    /\ result.val = <<0, 0, 0, 0, 0, 0, 0, 1>>

-----------------------------------------------------------------------------
\* Decoding the region left to right meets a push (direct or PUSHDATA1)
\* whose declared length exceeds what is left of the region.
RECURSIVE PushOverruns(_)
PushOverruns(region) ==
    IF region = <<>> THEN FALSE
    ELSE LET v == region[1] IN
         IF v >= 1 /\ v <= 75
         THEN Len(region) < v + 1 \/ PushOverruns(Drop(region, v + 1))
         ELSE IF v = 76
         THEN Len(region) >= 2
              /\ (Len(region) < region[2] + 2
                  \/ PushOverruns(Drop(region, region[2] + 2)))
         ELSE IF v \in {106, 118, 135, 136, 169, 172}
         THEN PushOverruns(Drop(region, 1))
         ELSE FALSE

\* C4: a Script decode that reads the length L and has L bytes after it
\* returns, on success, the remainder that starts L bytes after the VarInt,
\* and fails with TruncatedInput when a push declares more bytes than are
\* left of the L-byte region.
C4_ScriptKeepsToRegion ==
    called = "Script" =>
        LET len == VarInt_parse(bytes)
            L == as_usize(len.val)
        IN  (len.kind = "Ok" /\ L <= Len(len.rest)) =>
                /\ result.kind = "Ok" => result.rest = Drop(len.rest, L)
                /\ PushOverruns(SubSeq(len.rest, 1, L))
                       => TruncatedInput(result)

\* A push that declares more bytes than its region holds has been decoded,
\* with bytes behind the region it could have read.
C4_Reached ==
    /\ called = "Script"
    /\ bytes = <<1, 5, 21, 22>>
    /\ Aborted(result)

-----------------------------------------------------------------------------
PlainOpcode(v) ==
    CASE v = 106 -> "Return"
      [] v = 118 -> "Dup"
      [] v = 135 -> "Equal"
      [] v = 136 -> "EqualVerify"
      [] v = 169 -> "Hash160"
      [] v = 172 -> "CheckSig"

\* C5: one opcode is decoded as the table says, for every first byte: 1-75
\* push that many following bytes (1+n consumed), 76 pushes the n bytes
\* after the length byte n (2+n consumed), 106, 118, 135, 136, 169, 172 are
\* Return, Dup, Equal, EqualVerify, Hash160, CheckSig (1 consumed), and
\* every other byte fails with UnsupportedOpcode.
C5_OpcodeTable ==
    (called = "OpCode" /\ bytes # <<>>) =>
        LET b == bytes
            v == b[1]
        IN  IF v >= 1 /\ v <= 75 THEN
                Len(b) >= 1 + v =>
                    /\ result.kind = "Ok"
                    /\ result.val = [op |-> "Push", data |-> SubSeq(b, 2, v + 1)]
                    /\ result.rest = Drop(b, 1 + v)
            ELSE IF v = 76 THEN
                (Len(b) >= 2 /\ Len(b) >= 2 + b[2]) =>
                    /\ result.kind = "Ok"
                    /\ result.val =
                         [op |-> "Push", data |-> SubSeq(b, 3, b[2] + 2)]
                    /\ result.rest = Drop(b, 2 + b[2])
            ELSE IF v \in {106, 118, 135, 136, 169, 172} THEN
                /\ result.kind = "Ok"
                /\ result.val = [op |-> PlainOpcode(v), data |-> <<>>]
                /\ result.rest = Drop(b, 1)
            ELSE UnsupportedOpcode(result)

\* PUSHDATA1 with the length byte 2 has pushed two bytes.
C5_Reached ==
    /\ called = "OpCode"
    /\ Len(bytes) >= 5 /\ bytes[1] = 76 /\ bytes[2] = 2
    /\ result.kind = "Ok"
    /\ result.val.data = <<bytes[3], bytes[4]>>
    /\ Len(result.rest) = Len(bytes) - 4

-----------------------------------------------------------------------------
ElementType(name) ==
    CASE name = "Vec<TxIn>" -> "TxIn"
      [] name = "Vec<TxOut>" -> "TxOut"
      [] name = "Vec<Transaction>" -> "Transaction"

VecNames == {"Vec<TxIn>", "Vec<TxOut>", "Vec<Transaction>"}

\* The outcomes of decoding at most n elements of type T one after the
\* other, each from the remainder of the one before, up to and including
\* the first that fails.
RECURSIVE Elements(_, _, _)
Elements(T, b, n) ==
    IF n = 0 THEN <<>>
    ELSE LET e == Parse(T, b) IN
         IF e.kind # "Ok" THEN <<e>> ELSE <<e>> \o Elements(T, e.rest, n - 1)

\* C6: the sequence decoder reads a VarInt count N and decodes exactly N
\* consecutive elements, each from the remainder of the one before; it
\* returns them in wire order with the remainder after the last (N = 0: the
\* empty sequence and the remainder after the VarInt); if an element fails,
\* the decode fails as that element did and returns no sequence.
C6_SequenceDecoder ==
    called \in VecNames =>
        LET len == VarInt_parse(bytes)
            N == as_usize(len.val)
            es == Elements(ElementType(called), len.rest, N)
        IN  len.kind = "Ok" =>
                IF es # <<>> /\ es[Len(es)].kind # "Ok"
                THEN /\ result = es[Len(es)]
                     /\ result.kind # "Ok"
                     /\ result.val = <<>>
                ELSE /\ Len(es) = N
                     /\ result.kind = "Ok"
                     /\ result.val = [i \in 1..N |-> es[i].val]
                     /\ result.rest =
                            IF N = 0 THEN len.rest ELSE es[N].rest

\* Three transaction outputs have been decoded and a byte is left.
C6_Reached ==
    /\ called = "Vec<TxOut>"
    /\ result.kind = "Ok"
    /\ Len(result.val) = 3
    /\ Len(result.rest) = 1

-----------------------------------------------------------------------------
\* C7: from_hex(to_hex(b)) = b for every byte sequence b, to_hex gives two
\* characters of 0-9 a-f per byte, and to_hex(from_hex(s)) is s in lower
\* case for every s of even length made of hex digits of either case.
C7_HexRoundTrip ==
    /\ called = "to_hex" =>
          /\ from_hex(result.val) = Ok(bytes, <<>>)
          /\ Len(result.val) = 2 * Len(bytes)
          /\ \A i \in 1..Len(result.val) : result.val[i] \in LowerHexDigits
    /\ (/\ called = "from_hex"
        /\ Len(BLOCK) % 2 = 0
        /\ \A i \in 1..Len(BLOCK) : BLOCK[i] \in HexDigits) =>
          /\ result.kind = "Ok"
          /\ to_hex(result.val) = Lower(BLOCK)

\* A text of two bytes with an upper-case digit has been decoded.
C7_Reached ==
    /\ called = "from_hex"
    /\ Len(BLOCK) = 4
    /\ BLOCK[2] = 70
    /\ result.kind = "Ok"
    /\ Len(result.val) = 2

-----------------------------------------------------------------------------
\* C8: from_hex succeeds exactly on the texts of even length made of hex
\* digits; a text of odd length fails with the odd-length error, whatever
\* its characters; a text of even length with a character that is no hex
\* digit fails with the invalid-digit error; a failure returns no bytes.
C8_FromHexValidation ==
    called = "from_hex" =>
        LET even == Len(BLOCK) % 2 = 0
            hex == \A i \in 1..Len(BLOCK) : BLOCK[i] \in HexDigits
        IN  /\ result.kind = "Ok" <=> (even /\ hex)
            /\ ~even => result = Err("Odd number of chars")
            /\ (even /\ ~hex) => result = Err("Invalid hex digit")
            /\ result.kind # "Ok" => result.val = <<>>

\* A text of odd length that holds a character that is no hex digit has
\* been refused for its length.
C8_Reached ==
    /\ called = "from_hex"
    /\ Len(BLOCK) = 3
    /\ BLOCK[1] = 103
    /\ result.msg = "Odd number of chars"

-----------------------------------------------------------------------------
Reported(r, expr) == \E i \in 1..Len(r.val) : r.val[i].expr = expr

\* C9: the Block decoder returns the bytes that follow a valid block as its
\* remainder; the run ends in the fatal TrailingBytes outcome whenever that
\* remainder is not empty, so the block is reported only when the whole
\* buffer was consumed; one byte appended to an input that decodes with an
\* empty remainder makes the run fail with TrailingBytes.
C9_TrailingBytes ==
    called = "main" =>
        LET block_bytes == from_hex(BLOCK)
            parsed == Block_parse(block_bytes.val)
            before == Block_parse(SubSeq(block_bytes.val, 1,
                                         Len(block_bytes.val) - 1))
        IN  block_bytes.kind = "Ok" =>
               /\ (parsed.kind = "Ok" /\ parsed.rest # <<>>) =>
                     TrailingBytes(result) /\ ~Reported(result, "block.header")
               /\ Reported(result, "block.header") =>
                     parsed.kind = "Ok" /\ parsed.rest = <<>>
               /\ (/\ block_bytes.val # <<>>
                   /\ before.kind = "Ok"
                   /\ before.rest = <<>>) =>
                     /\ parsed.kind = "Ok"
                     /\ parsed.val = before.val
                     /\ parsed.rest =
                            <<block_bytes.val[Len(block_bytes.val)]>>
                     /\ TrailingBytes(result)

\* The run has ended on the byte that follows a block of two transactions.
C9_Reached ==
    /\ called = "main"
    /\ TrailingBytes(result)
    /\ Len(Block_parse(bytes).val.transactions) = 2
    /\ Len(Block_parse(bytes).rest) = 1

-----------------------------------------------------------------------------
DecoderNames ==
    Primitives \cup VecNames \cup
    {"BlockHeader", "Block", "OutPoint", "OpCode", "Script", "TxIn", "TxOut",
     "Transaction", "Script, step by step"}

C10_StrictSuffix ==
    (called \in DecoderNames /\ pc = "done" /\ result.kind = "Ok") =>
        IsSuffix(result.rest, bytes) /\ Len(result.rest) < Len(bytes)

C10_LoopShrinks ==
    (pc = "while" /\ pc' = "while") =>
        /\ IsSuffix(script_bytes', script_bytes)
        /\ Len(script_bytes') < Len(script_bytes)

\* C10: every successful decode returns a remainder that is a strictly
\* shorter suffix of its buffer, every iteration of the opcode loop of the
\* Script decoder that stays in the loop shrinks the region, and every call
\* ends in a result or a failure.
C10_Progress ==
    /\ []C10_StrictSuffix
    /\ [][C10_LoopShrinks]_<<pc, script_bytes>>
    /\ <>(pc = "done")

\* The opcode loop has run three times and is not finished.
C10_Reached ==
    /\ pc = "while"
    /\ Len(opcodes) = 3
    /\ script_bytes # <<>>

=============================================================================
